---- MODULE Spec2Model ----
(***************************************************************************)
(* Stereo distance estimation: the DistanceCalculation engine              *)
(* (distance_calculation.py) and its caller handle_selected_images         *)
(* (object_detection_app.py).                                              *)
(*                                                                         *)
(* Numbers.  Python floats are modelled in fixed point:                    *)
(*   angles                 milli-degrees                                  *)
(*   sin                    1/10^4   (table per degree, linear between)    *)
(*   sin^2, numerator       1/10^8                                         *)
(*   value_inside_sqrt      1/10^4, saturating at ValueCap                 *)
(*   cameras_distance       millimetres                                    *)
(*   triangulated distance  1/100 mm                                       *)
(*   focal_length           1/100 pixel                                    *)
(*   disparity distance     1/100 mm                                       *)
(*   pixel_to_angle_ratio_x micro-degrees per pixel                        *)
(* Python's None is the empty sequence, a present number n is <<n>>.       *)
(* A dict is a record whose DOMAIN is the set of keys it has; a dict value *)
(* is Num(n) or the non-numeric Str.                                       *)
(***************************************************************************)
EXTENDS Integers, Sequences, FiniteSets, TLC

\* Angles handed to the engine directly: every multiple of 5 degrees up to
\* 5*MaxK degrees on either side, and the documented 8 degree scenario.
MaxK == 20

None == <<>>
Some(n) == <<n>>

Num(n) == [t |-> "num", v |-> n]
Str == [t |-> "str", v |-> 0]
Text(s) == [t |-> s, v |-> 0]
Exc(kind) == Text(kind)
IsNum(x) == x.t = "num"

Abs(n) == IF n < 0 THEN -n ELSE n
Sign(n) == IF n < 0 THEN -1 ELSE IF n > 0 THEN 1 ELSE 0

\* Python's true division a / b of two numbers, in fixed point: the quotient
\* keeps the sign of the exact quotient and is cut toward zero.
TrueDiv(a, b) == Sign(a) * Sign(b) * (Abs(a) \div Abs(b))

ValueScale == 10^4
\* Largest ratio 2*numerator/denominator the fixed point holds; a double
\* holds far more, so a larger ratio is kept as this one ("huge").
ValueCap == 10^5

\* round(sin(d degrees) * 10^4) for d = 0..90, at index d+1.
SinTable ==
  << 0, 175, 349, 523, 698, 872, 1045, 1219, 1392, 1564,
     1736, 1908, 2079, 2250, 2419, 2588, 2756, 2924, 3090, 3256,
     3420, 3584, 3746, 3907, 4067, 4226, 4384, 4540, 4695, 4848,
     5000, 5150, 5299, 5446, 5592, 5736, 5878, 6018, 6157, 6293,
     6428, 6561, 6691, 6820, 6947, 7071, 7193, 7314, 7431, 7547,
     7660, 7771, 7880, 7986, 8090, 8192, 8290, 8387, 8480, 8572,
     8660, 8746, 8829, 8910, 8988, 9063, 9135, 9205, 9272, 9336,
     9397, 9455, 9511, 9563, 9613, 9659, 9703, 9744, 9781, 9816,
     9848, 9877, 9903, 9925, 9945, 9962, 9976, 9986, 9994, 9998,
     10000 >>

\* sin of an angle of the first quadrant, 0..90000 milli-degrees.
SinFirstQuadrant(m) ==
  LET d == m \div 1000
      f == m % 1000
  IN IF f = 0 THEN SinTable[d + 1]
     ELSE SinTable[d + 1] + ((SinTable[d + 2] - SinTable[d + 1]) * f) \div 1000

\* sin(radians(a)) ** 2 for an angle a in milli-degrees.  sin^2 has period
\* 180 degrees and is even.  radians(a) of a nonzero multiple of 180 degrees
\* is not an exact multiple of pi, so the double sin is a tiny nonzero number
\* (sin(radians(180)) = 1.2e-16): its square is the smallest positive
\* fixed-point value, and only sin(0) ** 2 is exactly 0.
SinSquared(a) ==
  LET m == a % 180000
      q == IF m > 90000 THEN 180000 - m ELSE m
  IN IF a = 0 THEN 0
     ELSE IF m = 0 THEN 1
     ELSE SinFirstQuadrant(q) * SinFirstQuadrant(q)

\* The digits of r / b after the point, n of them (r < b).
RECURSIVE FractionDigits(_, _, _)
FractionDigits(r, b, n) ==
  IF n = 0 THEN 0
  ELSE ((r * 10) \div b) * 10^(n - 1) + FractionDigits((r * 10) % b, b, n - 1)

\* a / b for a >= 0, b > 0 in units of 1/ValueScale, saturating.
Ratio(a, b) ==
  IF a \div b >= ValueCap THEN ValueCap * ValueScale
  ELSE (a \div b) * ValueScale + FractionDigits(a % b, b, 4)

RECURSIVE Bisect(_, _, _)
Bisect(lo, hi, n) ==
  IF lo >= hi THEN lo
  ELSE LET mid == (lo + hi + 1) \div 2
       IN IF mid * mid <= n THEN Bisect(mid, hi, n) ELSE Bisect(lo, mid - 1, n)

\* floor(sqrt(n)) for 0 <= n < 2^31.
Sqrt(n) == Bisect(0, 46340, n)


(***************************************************************************)
(* The engine object and the two dicts its caller holds.                   *)
(***************************************************************************)
VARIABLES
  fov_horizontal,           \* self.fov_horizontal, degrees
  cameras_distance,         \* self.cameras_distance, millimetres
  focal_length,             \* self.focal_length, 1/100 pixel
  pixel_to_angle_ratio_x,   \* self.pixel_to_angle_ratio_x: None or <<micro-degrees per pixel>>
  left_image,               \* the caller's left dict
  right_image,              \* the caller's right dict
  call,                     \* the engine call that returned last, with its locals
  first,                    \* per estimator: what its first call on these dicts returned
  last_res_width,           \* the res_width of the latest update_pixel_to_angle_ratio call
  pc,                       \* where handle_selected_images stands ("idle": not running)
  res_left,                 \* None (unread or unreadable) or <<width of img_left>>
  res_right,                \* None (unread or unreadable) or <<width of img_right>>
  bounding_boxes_left,      \* what detect_objects found in img_left
  bounding_boxes_right,     \* what detect_objects found in img_right
  distance_info,            \* None or <<what calculate_distance returned>>
  distance_info_disparity,  \* None or <<what calculate_distance_using_disparity returned>>
  printed,                  \* what the run has printed, in order
  updates,                  \* the widths this run passed to update_pixel_to_angle_ratio
  threads                   \* per thread: the engine call it is in, and what it has read

appVars == <<pc, res_left, res_right, bounding_boxes_left, bounding_boxes_right,
             distance_info, distance_info_disparity, printed, updates>>
vars == <<fov_horizontal, cameras_distance, focal_length, pixel_to_angle_ratio_x,
          left_image, right_image, call, first, last_res_width, appVars, threads>>

\* main(): fov_horizontal = 55, cameras_distance = 0.265 m.
MainFov == 55
MainCamerasDistance == 265

\* round(tan(radians(fov / 2)) * 10^4).
TanHalfFov(fov) == CASE fov = 55 -> 5206 [] fov = 60 -> 5774 [] fov = 90 -> 10000

\* __init__: 640 / (2 * tan(radians(fov_horizontal / 2))), in 1/100 pixel.
FocalLength(fov) == (640 * 10^6) \div (2 * TanHalfFov(fov))

\* update_pixel_to_angle_ratio: fov_horizontal / res_width, in micro-degrees per pixel.
PixelToAngleRatio(fov, res_width) == (fov * 10^6) \div res_width

Keys == {"img_center_x", "obj_center_x", "angle_of_view_x"}

\* The locals of calculate_distance; a local never assigned is None.
NoLocals ==
  [case |-> "", internal_angle_left_x |-> None, internal_angle_right_x |-> None,
   internal_angle_obj |-> None, denominator |-> None, numerator |-> None,
   value_inside_sqrt |-> None]

\* A return statement: the dict {'distance': ..., 'details': ...}.
Return(distance, msg, args, locals) ==
  [raised |-> "", distance |-> distance, details |-> [msg |-> msg, args |-> args],
   locals |-> locals]

\* An exception leaving the statement that raised it.
Raise(kind, locals) ==
  [raised |-> kind, distance |-> None, details |-> [msg |-> "", args |-> <<>>],
   locals |-> locals]

\* Mutant of Except: no except clause, the exception leaves the method.
ExceptNothing(out, msg) == out

\* "except Exception as e: return {'distance': None, 'details': f'<msg>: {e}'}".
Except(out, msg) ==
  IF out.raised = "" THEN out
  ELSE Return(None, msg, <<Exc(out.raised)>>, out.locals)

\* Mutant of Classify: an angle of exactly 0 on the left counts as negative.
ClassifyZeroIsNegative(left, right) ==
  IF left <= 0 /\ right > 0 THEN
    [NoLocals EXCEPT !.case = "between the cameras",
                     !.internal_angle_left_x = Some(90000 - Abs(left)),
                     !.internal_angle_right_x = Some(90000 - Abs(right))]
  ELSE IF left > 0 /\ right > 0 THEN
    [NoLocals EXCEPT !.case = "to the left of the left camera",
                     !.internal_angle_left_x = Some(90000 + Abs(left)),
                     !.internal_angle_right_x = Some(90000 - Abs(right))]
  ELSE IF left <= 0 /\ right < 0 THEN
    [NoLocals EXCEPT !.case = "to the right of the right camera",
                     !.internal_angle_left_x = Some(90000 - Abs(left)),
                     !.internal_angle_right_x = Some(90000 + Abs(right))]
  ELSE [NoLocals EXCEPT !.case = "unknown"]

\* Lines 49-62: the if/elif chain on the two angles (numbers, milli-degrees).
Classify(left, right) ==
  IF left < 0 /\ right > 0 THEN
    [NoLocals EXCEPT !.case = "between the cameras",
                     !.internal_angle_left_x = Some(90000 - Abs(left)),
                     !.internal_angle_right_x = Some(90000 - Abs(right))]
  ELSE IF left > 0 /\ right > 0 THEN
    [NoLocals EXCEPT !.case = "to the left of the left camera",
                     !.internal_angle_left_x = Some(90000 + Abs(left)),
                     !.internal_angle_right_x = Some(90000 - Abs(right))]
  ELSE IF left < 0 /\ right < 0 THEN
    [NoLocals EXCEPT !.case = "to the right of the right camera",
                     !.internal_angle_left_x = Some(90000 - Abs(left)),
                     !.internal_angle_right_x = Some(90000 + Abs(right))]
  ELSE [NoLocals EXCEPT !.case = "unknown"]

\* Mutant of IsDegenerate: "< 0" for "<= 0".
IsDegenerateStrict(internal_angle_obj) == internal_angle_obj < 0

\* Line 71: the degenerate-triangle test on internal_angle_obj.
IsDegenerate(internal_angle_obj) == internal_angle_obj <= 0

\* Mutant of Triangulate: the factor 2 of value_inside_sqrt is lost.
TriangulateNoFactorTwo(self, c) ==
  LET denominator == SinSquared(c.internal_angle_obj[1])
      c1 == [c EXCEPT !.denominator = Some(denominator)]
  IN IF denominator = 0 THEN
       Return(None, "Division by zero encountered in distance calculation.", <<>>, c1)
     ELSE
       LET numerator == SinSquared(c.internal_angle_left_x[1])
                        + SinSquared(c.internal_angle_right_x[1])
           value_inside_sqrt == Ratio(numerator, denominator) - ValueScale
           c2 == [c1 EXCEPT !.numerator = Some(numerator),
                            !.value_inside_sqrt = Some(value_inside_sqrt)]
       IN IF value_inside_sqrt < 0 THEN
            Return(None, "Invalid value inside square root in distance calculation.",
                   <<>>, c2)
          ELSE
            Return(Some((self.cameras_distance * Sqrt(value_inside_sqrt)) \div 2),
                   "Object is <case>.", <<Text(c.case)>>, c2)

\* Mutant of Triangulate: the radicand is not tested before the square root
\* (the root of its magnitude is taken).
TriangulateNoRadicandTest(self, c) ==
  LET denominator == SinSquared(c.internal_angle_obj[1])
      c1 == [c EXCEPT !.denominator = Some(denominator)]
  IN IF denominator = 0 THEN
       Return(None, "Division by zero encountered in distance calculation.", <<>>, c1)
     ELSE
       LET numerator == SinSquared(c.internal_angle_left_x[1])
                        + SinSquared(c.internal_angle_right_x[1])
           value_inside_sqrt == 2 * Ratio(numerator, denominator) - ValueScale
           c2 == [c1 EXCEPT !.numerator = Some(numerator),
                            !.value_inside_sqrt = Some(value_inside_sqrt)]
       IN Return(Some((self.cameras_distance * Sqrt(Abs(value_inside_sqrt))) \div 2),
                 "Object is <case>.", <<Text(c.case)>>, c2)

\* Lines 83-106: denominator, numerator, value_inside_sqrt and the distance.
Triangulate(self, c) ==
  LET denominator == SinSquared(c.internal_angle_obj[1])
      c1 == [c EXCEPT !.denominator = Some(denominator)]
  IN IF denominator = 0 THEN
       Return(None, "Division by zero encountered in distance calculation.", <<>>, c1)
     ELSE
       LET numerator == SinSquared(c.internal_angle_left_x[1])
                        + SinSquared(c.internal_angle_right_x[1])
           value_inside_sqrt == 2 * Ratio(numerator, denominator) - ValueScale
           c2 == [c1 EXCEPT !.numerator = Some(numerator),
                            !.value_inside_sqrt = Some(value_inside_sqrt)]
       IN IF value_inside_sqrt < 0 THEN
            Return(None, "Invalid value inside square root in distance calculation.",
                   <<>>, c2)
          ELSE
            Return(Some((self.cameras_distance * Sqrt(value_inside_sqrt)) \div 2),
                   "Object is <case>.", <<Text(c.case)>>, c2)

\* Lines 39-106: the body of the try block of calculate_distance.
\* The six dict reads come first (KeyError on a missing key).  In the chain
\* of comparisons a non-numeric angle raises TypeError where it is compared:
\* the left angle always is; the right one only behind a true left test, so
\* never when the left angle is 0.
CalculateDistanceBody(self, left, right) ==
  IF ~(Keys \subseteq DOMAIN left) \/ ~(Keys \subseteq DOMAIN right) THEN
    Raise("KeyError", NoLocals)
  ELSE
    LET angle_of_view_left_x == left.angle_of_view_x
        angle_of_view_right_x == right.angle_of_view_x
    IN IF ~IsNum(angle_of_view_left_x)
          \/ (angle_of_view_left_x.v # 0 /\ ~IsNum(angle_of_view_right_x)) THEN
         Raise("TypeError", NoLocals)
       ELSE
         LET c == Classify(angle_of_view_left_x.v, angle_of_view_right_x.v)
         IN IF c.case = "unknown" THEN
              Return(None, "Unknown case based on angles",
                     <<angle_of_view_left_x, angle_of_view_right_x>>, c)
            ELSE
              LET internal_angle_obj ==
                    180000 - (c.internal_angle_left_x[1] + c.internal_angle_right_x[1])
                  c1 == [c EXCEPT !.internal_angle_obj = Some(internal_angle_obj)]
              IN IF IsDegenerate(internal_angle_obj) THEN
                   Return(None, "Invalid internal angles leading to degenerate triangle.",
                          <<>>, c1)
                 ELSE Triangulate(self, c1)

\* calculate_distance: the try block and its except clause.
calculate_distance(self, left, right) ==
  Except(CalculateDistanceBody(self, left, right), "Error during distance calculation")

\* Mutant of DisparityBody: the disparity is taken right minus left.
DisparityBodyReversed(self, left, right) ==
  IF "obj_center_x" \notin DOMAIN left \/ "obj_center_x" \notin DOMAIN right THEN
    Raise("KeyError", NoLocals)
  ELSE
    LET obj_center_left_x == left.obj_center_x
        obj_center_right_x == right.obj_center_x
    IN IF ~IsNum(obj_center_left_x) \/ ~IsNum(obj_center_right_x) THEN
         Raise("TypeError", NoLocals)
       ELSE
         LET disparity == obj_center_right_x.v - obj_center_left_x.v
         IN IF disparity = 0 THEN
              Return(None, "Disparity is zero, unable to calculate distance.", <<>>, NoLocals)
            ELSE
              Return(Some(TrueDiv(self.focal_length * self.cameras_distance, disparity)),
                     "Distance calculated using disparity and focal length.", <<>>, NoLocals)

\* Lines 120-140: the body of the try block of calculate_distance_using_disparity.
DisparityBody(self, left, right) ==
  IF "obj_center_x" \notin DOMAIN left \/ "obj_center_x" \notin DOMAIN right THEN
    Raise("KeyError", NoLocals)
  ELSE
    LET obj_center_left_x == left.obj_center_x
        obj_center_right_x == right.obj_center_x
    IN IF ~IsNum(obj_center_left_x) \/ ~IsNum(obj_center_right_x) THEN
         Raise("TypeError", NoLocals)
       ELSE
         LET disparity == obj_center_left_x.v - obj_center_right_x.v
         IN IF disparity = 0 THEN
              Return(None, "Disparity is zero, unable to calculate distance.", <<>>, NoLocals)
            ELSE
              Return(Some(TrueDiv(self.focal_length * self.cameras_distance, disparity)),
                     "Distance calculated using disparity and focal length.", <<>>, NoLocals)

\* calculate_distance_using_disparity: the try block and its except clause.
calculate_distance_using_disparity(self, left, right) ==
  Except(DisparityBody(self, left, right), "Error calculating distance using disparity")

\* The engine object as the methods see it.
Self ==
  [fov_horizontal |-> fov_horizontal, cameras_distance |-> cameras_distance,
   focal_length |-> focal_length, pixel_to_angle_ratio_x |-> pixel_to_angle_ratio_x]

(***************************************************************************)
(* Inputs of the direct engine calls.                                      *)
(***************************************************************************)
Observation(img_center_x, obj_center_x, angle_of_view_x) ==
  [img_center_x |-> Num(img_center_x), obj_center_x |-> Num(obj_center_x),
   angle_of_view_x |-> Num(angle_of_view_x)]

Angles == {5000 * k : k \in -MaxK..MaxK} \cup {-8000, 8000}

WellFormed ==
  {Observation(320, 300, a) : a \in Angles}
  \cup {Observation(320, x, a) : x \in {100, 340}, a \in {-10000, 0, 8000}}
  \cup {Observation(160, 300, 8000)}

Malformed ==
  { [img_center_x |-> Num(320), obj_center_x |-> Num(300)],
    [img_center_x |-> Num(320), angle_of_view_x |-> Num(8000)],
    [obj_center_x |-> Num(300), angle_of_view_x |-> Num(-10000)],
    [img_center_x |-> Num(320), obj_center_x |-> Num(300), angle_of_view_x |-> Str],
    [img_center_x |-> Num(320), obj_center_x |-> Str, angle_of_view_x |-> Num(8000)],
    [img_center_x |-> Str, obj_center_x |-> Num(340), angle_of_view_x |-> Num(-10000)] }

Inputs == WellFormed \cup Malformed

ResWidths == {320, 640, 1280}

NoOutcome == Return(None, "", <<>>, NoLocals)
NoCall == [op |-> "none", out |-> NoOutcome]

\* Threads that call into one engine instance.
NumThreads == 2
Threads == 1..NumThreads

\* A thread outside the engine.
IdleThread ==
  [pc |-> "idle", op |-> "none", left |-> <<>>, right |-> <<>>, res_width |-> 0,
   config |-> <<>>, seen |-> None, out |-> NoOutcome]
NoThreads == [t \in Threads |-> IdleThread]

Init ==
  /\ fov_horizontal = MainFov
  /\ cameras_distance = MainCamerasDistance
  /\ pixel_to_angle_ratio_x = None
  /\ focal_length = FocalLength(MainFov)
  /\ left_image \in Inputs
  /\ right_image \in Inputs
  /\ call = NoCall
  /\ first = [calculate_distance |-> None, calculate_distance_using_disparity |-> None]
  /\ last_res_width = None
  /\ pc = "idle"
  /\ res_left = None
  /\ res_right = None
  /\ bounding_boxes_left = <<>>
  /\ bounding_boxes_right = <<>>
  /\ distance_info = None
  /\ distance_info_disparity = None
  /\ printed = <<>>
  /\ updates = <<>>
  /\ threads = NoThreads

\* Mutant of UpdatePixelToAngleRatio: the focal length follows the new width
\* (image_width / (2 * tan(FOV / 2)) with the width passed in).
UpdateAlsoFocalLength ==
  \E res_width \in ResWidths :
    /\ pixel_to_angle_ratio_x' = Some(PixelToAngleRatio(fov_horizontal, res_width))
    /\ focal_length' = (res_width * 10^6) \div (2 * TanHalfFov(fov_horizontal))
    /\ last_res_width' = Some(res_width)
    /\ call' = [op |-> "update_pixel_to_angle_ratio", out |-> NoOutcome]
    /\ UNCHANGED <<fov_horizontal, cameras_distance, left_image, right_image, first,
                   appVars, threads>>

\* distance_calculator.update_pixel_to_angle_ratio(res_width)
UpdatePixelToAngleRatio ==
  \E res_width \in ResWidths :
    /\ pixel_to_angle_ratio_x' = Some(PixelToAngleRatio(fov_horizontal, res_width))
    /\ last_res_width' = Some(res_width)
    /\ call' = [op |-> "update_pixel_to_angle_ratio", out |-> NoOutcome]
    /\ UNCHANGED <<fov_horizontal, cameras_distance, focal_length,
                   left_image, right_image, first, appVars, threads>>

\* Mutant of CalculateDistance: the call stores the angle it worked with in
\* the engine, converted with the current ratio's width.
CalculateDistanceTouchingRatio ==
  LET out == calculate_distance(Self, left_image, right_image)
  IN /\ call' = [op |-> "calculate_distance", out |-> out]
     /\ first' = IF first.calculate_distance = None
                 THEN [first EXCEPT !.calculate_distance = Some(out)]
                 ELSE first
     /\ pixel_to_angle_ratio_x' = None
     /\ UNCHANGED <<fov_horizontal, cameras_distance, focal_length,
                    left_image, right_image, last_res_width, appVars, threads>>

\* distance_calculator.calculate_distance(left_image, right_image)
CalculateDistance ==
  LET out == calculate_distance(Self, left_image, right_image)
  IN /\ call' = [op |-> "calculate_distance", out |-> out]
     /\ first' = IF first.calculate_distance = None
                 THEN [first EXCEPT !.calculate_distance = Some(out)]
                 ELSE first
     /\ UNCHANGED <<fov_horizontal, cameras_distance, focal_length,
                    pixel_to_angle_ratio_x, left_image, right_image, last_res_width,
                    appVars, threads>>

\* distance_calculator.calculate_distance_using_disparity(left_image, right_image)
CalculateDistanceUsingDisparity ==
  LET out == calculate_distance_using_disparity(Self, left_image, right_image)
  IN /\ call' = [op |-> "calculate_distance_using_disparity", out |-> out]
     /\ first' = IF first.calculate_distance_using_disparity = None
                 THEN [first EXCEPT !.calculate_distance_using_disparity = Some(out)]
                 ELSE first
     /\ UNCHANGED <<fov_horizontal, cameras_distance, focal_length,
                    pixel_to_angle_ratio_x, left_image, right_image, last_res_width,
                    appVars, threads>>

Next ==
  \/ UpdatePixelToAngleRatio
  \/ CalculateDistance
  \/ CalculateDistanceUsingDisparity

Spec == Init /\ [][Next]_vars

(***************************************************************************)
(* handle_selected_images, the callback main() hands to the GUI: one run   *)
(* per selection of two image files, statement by statement.               *)
(***************************************************************************)
\* Most bounding boxes detect_objects returns for one image.
MaxDetections == 2

\* Widths of the image files a user selects.
ImageWidths == {320, 640}

\* Bounding boxes (xmin, xmax) of an image of width w: left of the centre,
\* around it, right of it; xmin + xmax is odd in each, so the // 2 rounds.
Boxes(w) ==
  { [xmin |-> c - 10, xmax |-> c + 11] :
      c \in {w \div 4, w \div 2 - 20, w \div 2, (3 * w) \div 4} }

\* The lists detect_objects can return for an image of width w.
Detections(w) ==
  UNION { [1..n -> Boxes(w)] : n \in 0..MaxDetections }

\* a // b of Python for b > 0.
FloorDiv(a, b) == a \div b

\* Mutant of BuildParams: the angle is taken obj_center_x - img_center_x, so
\* that a positive angle means right of the image centre.
BuildParamsObjMinusImg(bbox, res_width, fov) ==
  LET obj_center_x == FloorDiv(bbox.xmin + bbox.xmax, 2)
      img_center_x == FloorDiv(res_width, 2)
      angle_of_view_x == TrueDiv((obj_center_x - img_center_x) * fov * 1000, res_width)
  IN Observation(img_center_x, obj_center_x, angle_of_view_x)

\* Lines 127-129 and 131-133: obj_center_x, img_center_x and angle_of_view_x
\* (milli-degrees) of one image, as the dict of lines 137-147.
BuildParams(bbox, res_width, fov) ==
  LET obj_center_x == FloorDiv(bbox.xmin + bbox.xmax, 2)
      img_center_x == FloorDiv(res_width, 2)
      angle_of_view_x == TrueDiv((img_center_x - obj_center_x) * fov * 1000, res_width)
  IN Observation(img_center_x, obj_center_x, angle_of_view_x)

AppInit ==
  /\ fov_horizontal = MainFov
  /\ cameras_distance = MainCamerasDistance
  /\ pixel_to_angle_ratio_x = None
  /\ focal_length = FocalLength(MainFov)
  /\ left_image = <<>>
  /\ right_image = <<>>
  /\ call = NoCall
  /\ first = [calculate_distance |-> None, calculate_distance_using_disparity |-> None]
  /\ last_res_width = None
  /\ pc = "idle"
  /\ res_left = None
  /\ res_right = None
  /\ bounding_boxes_left = <<>>
  /\ bounding_boxes_right = <<>>
  /\ distance_info = None
  /\ distance_info_disparity = None
  /\ printed = <<>>
  /\ updates = <<>>
  /\ threads = NoThreads

engineUnchanged ==
  UNCHANGED <<fov_horizontal, cameras_distance, focal_length, pixel_to_angle_ratio_x,
              last_res_width, call, first, threads>>

InSeq(x, seq) == \E i \in 1..Len(seq) : seq[i] = x

\* Lines 56-62: the GUI calls handle_selected_images(file_paths).
SelectImages ==
  /\ pc = "idle"
  /\ pc' = "read_left"
  /\ res_left' = None
  /\ res_right' = None
  /\ bounding_boxes_left' = <<>>
  /\ bounding_boxes_right' = <<>>
  /\ left_image' = <<>>
  /\ right_image' = <<>>
  /\ distance_info' = None
  /\ distance_info_disparity' = None
  /\ printed' = <<"Selected images">>
  /\ updates' = <<>>
  /\ call' = NoCall
  /\ UNCHANGED <<fov_horizontal, cameras_distance, focal_length, pixel_to_angle_ratio_x,
                 last_res_width, first, threads>>

\* Lines 64-70: cv2.imread of the left file; None ends the run.
ReadLeft ==
  /\ pc = "read_left"
  /\ \E img \in {None} \cup {Some(w) : w \in ImageWidths} :
       /\ res_left' = img
       /\ IF img = None
          THEN /\ printed' = Append(printed, "Failed to read left image")
               /\ pc' = "idle"
          ELSE /\ printed' = printed
               /\ pc' = "read_right"
  /\ UNCHANGED <<res_right, bounding_boxes_left, bounding_boxes_right, left_image,
                 right_image, distance_info, distance_info_disparity, updates>>
  /\ engineUnchanged

\* Lines 72-78: cv2.imread of the right file; None ends the run.
ReadRight ==
  /\ pc = "read_right"
  /\ \E img \in {None} \cup {Some(w) : w \in ImageWidths} :
       /\ res_right' = img
       /\ IF img = None
          THEN /\ printed' = Append(printed, "Failed to read right image")
               /\ pc' = "idle"
          ELSE /\ printed' = printed
               /\ pc' = "update_ratio"
  /\ UNCHANGED <<res_left, bounding_boxes_left, bounding_boxes_right, left_image,
                 right_image, distance_info, distance_info_disparity, updates>>
  /\ engineUnchanged

\* Lines 80-91: distance_calculator.update_pixel_to_angle_ratio(res_left[0]).
RunUpdateRatio ==
  /\ pc = "update_ratio"
  /\ pixel_to_angle_ratio_x' = Some(PixelToAngleRatio(fov_horizontal, res_left[1]))
  /\ last_res_width' = Some(res_left[1])
  /\ updates' = Append(updates, res_left[1])
  /\ pc' = "detect"
  /\ UNCHANGED <<fov_horizontal, cameras_distance, focal_length, call, first,
                 res_left, res_right, bounding_boxes_left, bounding_boxes_right,
                 left_image, right_image, distance_info, distance_info_disparity,
                 printed, threads>>

\* Lines 93-113: detect_objects on both images, and the saving of the drawn
\* images.
DetectObjects ==
  /\ pc = "detect"
  /\ \E l \in Detections(res_left[1]), r \in Detections(res_right[1]) :
       /\ bounding_boxes_left' = l
       /\ bounding_boxes_right' = r
  /\ pc' = "check_detections"
  /\ printed' = Append(printed, "Saved detected images")
  /\ UNCHANGED <<res_left, res_right, left_image, right_image, distance_info,
                 distance_info_disparity, updates>>
  /\ engineUnchanged

\* Lines 66-68 of object_detection_yolov5.py with lines 200-202: detect_objects
\* raises, the run's except clause prints the error and the run ends.
DetectObjectsRaises ==
  /\ pc = "detect"
  /\ pc' = "idle"
  /\ printed' = Append(printed, "Error during image processing")
  /\ UNCHANGED <<res_left, res_right, bounding_boxes_left, bounding_boxes_right,
                 left_image, right_image, distance_info, distance_info_disparity,
                 updates>>
  /\ engineUnchanged

\* Mutant of CheckDetections: the run proceeds with the first box of each
\* image as soon as both images have one.
CheckDetectionsAtLeastOne ==
  /\ pc = "check_detections"
  /\ IF Len(bounding_boxes_left) >= 1 /\ Len(bounding_boxes_right) >= 1
     THEN /\ pc' = "build"
          /\ printed' = printed
     ELSE /\ pc' = "complete"
          /\ printed' = printed \o <<"Warning: Number of detected objects",
                                     "Unable to calculate distance">>
  /\ UNCHANGED <<res_left, res_right, bounding_boxes_left, bounding_boxes_right,
                 left_image, right_image, distance_info, distance_info_disparity,
                 updates>>
  /\ engineUnchanged

\* Lines 115-122 and 194-196: the warning, and the branch on one box each.
CheckDetections ==
  /\ pc = "check_detections"
  /\ IF Len(bounding_boxes_left) = 1 /\ Len(bounding_boxes_right) = 1
     THEN /\ pc' = "build"
          /\ printed' = printed
     ELSE /\ pc' = "complete"
          /\ printed' = printed \o <<"Warning: Number of detected objects",
                                     "Unable to calculate distance">>
  /\ UNCHANGED <<res_left, res_right, bounding_boxes_left, bounding_boxes_right,
                 left_image, right_image, distance_info, distance_info_disparity,
                 updates>>
  /\ engineUnchanged

\* Lines 123-147: the two dicts for DistanceCalculation.
BuildObservations ==
  /\ pc = "build"
  /\ left_image' = BuildParams(bounding_boxes_left[1], res_left[1], fov_horizontal)
  /\ right_image' = BuildParams(bounding_boxes_right[1], res_right[1], fov_horizontal)
  /\ pc' = "calculate_distance"
  /\ UNCHANGED <<res_left, res_right, bounding_boxes_left, bounding_boxes_right,
                 distance_info, distance_info_disparity, printed, updates>>
  /\ engineUnchanged

\* Lines 149-181: calculate_distance, the parameter printout, the display.
RunCalculateDistance ==
  /\ pc = "calculate_distance"
  /\ LET out == calculate_distance(Self, left_image, right_image)
     IN /\ distance_info' = Some(out)
        /\ call' = [op |-> "calculate_distance", out |-> out]
  /\ printed' = Append(printed, "Additional Parameters")
  /\ pc' = "calculate_disparity"
  /\ UNCHANGED <<fov_horizontal, cameras_distance, focal_length, pixel_to_angle_ratio_x,
                 last_res_width, first, res_left, res_right, bounding_boxes_left,
                 bounding_boxes_right, left_image, right_image,
                 distance_info_disparity, updates, threads>>

\* Line 184: calculate_distance_using_disparity.
RunCalculateDisparity ==
  /\ pc = "calculate_disparity"
  /\ LET out == calculate_distance_using_disparity(Self, left_image, right_image)
     IN /\ distance_info_disparity' = Some(out)
        /\ call' = [op |-> "calculate_distance_using_disparity", out |-> out]
  /\ pc' = "print_disparity"
  /\ UNCHANGED <<fov_horizontal, cameras_distance, focal_length, pixel_to_angle_ratio_x,
                 last_res_width, first, res_left, res_right, bounding_boxes_left,
                 bounding_boxes_right, left_image, right_image, distance_info,
                 printed, updates, threads>>

\* Line 185: print(f"...{distance_info_disparity['distance']:.2f} meters").
\* The format spec .2f applied to None raises TypeError, which the except
\* clause of lines 200-202 prints; the run ends there.
PrintDisparity ==
  /\ pc = "print_disparity"
  /\ IF distance_info_disparity[1].distance = None
     THEN /\ printed' = Append(printed, "Error during image processing")
          /\ pc' = "idle"
     ELSE /\ printed' = Append(printed, "Distance (using disparity)")
          /\ pc' = "print_distance"
  /\ UNCHANGED <<res_left, res_right, bounding_boxes_left, bounding_boxes_right,
                 left_image, right_image, distance_info, distance_info_disparity,
                 updates>>
  /\ engineUnchanged

\* Lines 187-193: the triangulated distance, or "Undefined" with the details.
PrintDistance ==
  /\ pc = "print_distance"
  /\ printed' = Append(printed, IF distance_info[1].distance # None
                                THEN "Distance to the object"
                                ELSE "Distance to the object: Undefined")
  /\ pc' = "complete"
  /\ UNCHANGED <<res_left, res_right, bounding_boxes_left, bounding_boxes_right,
                 left_image, right_image, distance_info, distance_info_disparity,
                 updates>>
  /\ engineUnchanged

\* Lines 198-199: "Processing complete.", and the callback returns.
Complete ==
  /\ pc = "complete"
  /\ printed' = Append(printed, "Processing complete.")
  /\ pc' = "idle"
  /\ UNCHANGED <<res_left, res_right, bounding_boxes_left, bounding_boxes_right,
                 left_image, right_image, distance_info, distance_info_disparity,
                 updates>>
  /\ engineUnchanged

AppNext ==
  \/ SelectImages
  \/ ReadLeft
  \/ ReadRight
  \/ RunUpdateRatio
  \/ DetectObjects
  \/ DetectObjectsRaises
  \/ CheckDetections
  \/ BuildObservations
  \/ RunCalculateDistance
  \/ RunCalculateDisparity
  \/ PrintDisparity
  \/ PrintDistance
  \/ Complete

AppSpec == AppInit /\ [][AppNext]_vars

\* handle_selected_images is a synchronous callback: once detection has
\* returned, the statements after it run to the end of the function.
AppFairSpec == AppSpec /\ WF_vars(CheckDetections) /\ WF_vars(Complete)

(***************************************************************************)
(* Several threads calling into one engine instance.  A thread switch can  *)
(* come between any two reads or writes of an attribute of self, so a call *)
(* is one step per such access: calculate_distance reads                   *)
(* self.cameras_distance (line 99), calculate_distance_using_disparity     *)
(* reads self.focal_length and then self.cameras_distance (line 135),      *)
(* update_pixel_to_angle_ratio reads self.fov_horizontal and then writes   *)
(* self.pixel_to_angle_ratio_x (line 28).  The two dicts are the caller's. *)
(***************************************************************************)
\* The dicts the threads pass: between the cameras, a degenerate pair with
\* disparity 0, to the left of the left camera, and a left dict without its
\* angle.
ThreadInputs ==
  { <<Observation(320, 340, -10000), Observation(320, 300, 8000)>>,
    <<Observation(320, 300, 8000), Observation(320, 300, 8000)>>,
    <<Observation(320, 300, 5000), Observation(320, 100, 10000)>>,
    <<[img_center_x |-> Num(320), obj_center_x |-> Num(300)],
      Observation(320, 340, -10000)>> }

ThreadWidths == {320, 640}

Ops == {"calculate_distance", "calculate_distance_using_disparity",
        "update_pixel_to_angle_ratio"}

ConcInit ==
  /\ fov_horizontal = MainFov
  /\ cameras_distance = MainCamerasDistance
  /\ pixel_to_angle_ratio_x = None
  /\ focal_length = FocalLength(MainFov)
  /\ left_image = <<>>
  /\ right_image = <<>>
  /\ call = NoCall
  /\ first = [calculate_distance |-> None, calculate_distance_using_disparity |-> None]
  /\ last_res_width = None
  /\ pc = "idle"
  /\ res_left = None
  /\ res_right = None
  /\ bounding_boxes_left = <<>>
  /\ bounding_boxes_right = <<>>
  /\ distance_info = None
  /\ distance_info_disparity = None
  /\ printed = <<>>
  /\ updates = <<>>
  /\ threads = NoThreads

callerUnchanged ==
  UNCHANGED <<left_image, right_image, call, first, appVars>>

\* Thread t enters one of the three methods; config is the engine as it is
\* at that moment.
ThreadCall(t) ==
  /\ threads[t].pc = "idle"
  /\ \E op \in Ops, in \in ThreadInputs, w \in ThreadWidths :
       threads' = [threads EXCEPT ![t] =
         IF op = "update_pixel_to_angle_ratio"
         THEN [IdleThread EXCEPT !.pc = "called", !.op = op, !.res_width = w,
                                 !.config = Self]
         ELSE [IdleThread EXCEPT !.pc = "called", !.op = op, !.left = in[1],
                                 !.right = in[2], !.config = Self]]
  /\ UNCHANGED <<fov_horizontal, cameras_distance, focal_length,
                 pixel_to_angle_ratio_x, last_res_width>>
  /\ callerUnchanged

\* Lines 39-106: calculate_distance up to its return; self.cameras_distance
\* is its only read of the engine.
ThreadCalculateDistance(t) ==
  /\ threads[t].pc = "called"
  /\ threads[t].op = "calculate_distance"
  /\ threads' = [threads EXCEPT
       ![t].out = calculate_distance(Self, threads[t].left, threads[t].right),
       ![t].pc = "returned"]
  /\ UNCHANGED <<fov_horizontal, cameras_distance, focal_length,
                 pixel_to_angle_ratio_x, last_res_width>>
  /\ callerUnchanged

\* Lines 120-135: calculate_distance_using_disparity up to its read of
\* self.focal_length.
ThreadReadFocalLength(t) ==
  /\ threads[t].pc = "called"
  /\ threads[t].op = "calculate_distance_using_disparity"
  /\ threads' = [threads EXCEPT ![t].seen = Some(focal_length), ![t].pc = "read"]
  /\ UNCHANGED <<fov_horizontal, cameras_distance, focal_length,
                 pixel_to_angle_ratio_x, last_res_width>>
  /\ callerUnchanged

\* Lines 135-140: the read of self.cameras_distance, the quotient, the return.
ThreadCalculateDisparity(t) ==
  /\ threads[t].pc = "read"
  /\ threads[t].op = "calculate_distance_using_disparity"
  /\ threads' = [threads EXCEPT
       ![t].out = calculate_distance_using_disparity(
                    [Self EXCEPT !.focal_length = threads[t].seen[1]],
                    threads[t].left, threads[t].right),
       ![t].pc = "returned"]
  /\ UNCHANGED <<fov_horizontal, cameras_distance, focal_length,
                 pixel_to_angle_ratio_x, last_res_width>>
  /\ callerUnchanged

\* Line 28, right-hand side: the read of self.fov_horizontal.
ThreadReadFov(t) ==
  /\ threads[t].pc = "called"
  /\ threads[t].op = "update_pixel_to_angle_ratio"
  /\ threads' = [threads EXCEPT ![t].seen = Some(fov_horizontal), ![t].pc = "read"]
  /\ UNCHANGED <<fov_horizontal, cameras_distance, focal_length,
                 pixel_to_angle_ratio_x, last_res_width>>
  /\ callerUnchanged

\* Mutant of ThreadWriteRatio: the update also stores a focal length for the
\* new width.
ThreadWriteRatioAndFocalLength(t) ==
  /\ threads[t].pc = "read"
  /\ threads[t].op = "update_pixel_to_angle_ratio"
  /\ pixel_to_angle_ratio_x'
       = Some(PixelToAngleRatio(threads[t].seen[1], threads[t].res_width))
  /\ focal_length' = (threads[t].res_width * 10^6) \div (2 * TanHalfFov(fov_horizontal))
  /\ last_res_width' = Some(threads[t].res_width)
  /\ threads' = [threads EXCEPT ![t].pc = "returned"]
  /\ UNCHANGED <<fov_horizontal, cameras_distance>>
  /\ callerUnchanged

\* Line 28, the assignment to self.pixel_to_angle_ratio_x.
ThreadWriteRatio(t) ==
  /\ threads[t].pc = "read"
  /\ threads[t].op = "update_pixel_to_angle_ratio"
  /\ pixel_to_angle_ratio_x'
       = Some(PixelToAngleRatio(threads[t].seen[1], threads[t].res_width))
  /\ last_res_width' = Some(threads[t].res_width)
  /\ threads' = [threads EXCEPT ![t].pc = "returned"]
  /\ UNCHANGED <<fov_horizontal, cameras_distance, focal_length>>
  /\ callerUnchanged

\* The caller has taken the result; the thread is free for another call.
ThreadDone(t) ==
  /\ threads[t].pc = "returned"
  /\ threads' = [threads EXCEPT ![t] = IdleThread]
  /\ UNCHANGED <<fov_horizontal, cameras_distance, focal_length,
                 pixel_to_angle_ratio_x, last_res_width>>
  /\ callerUnchanged

ConcNext ==
  \E t \in Threads :
    \/ ThreadCall(t)
    \/ ThreadCalculateDistance(t)
    \/ ThreadReadFocalLength(t)
    \/ ThreadCalculateDisparity(t)
    \/ ThreadReadFov(t)
    \/ ThreadWriteRatio(t)
    \/ ThreadDone(t)

ConcSpec == ConcInit /\ [][ConcNext]_vars

(***************************************************************************)
(* Claims about the engine, checked under Spec.                            *)
(***************************************************************************)
IsTriangulation == call.op = "calculate_distance"
IsDisparity == call.op = "calculate_distance_using_disparity"

\* Both dicts have their three keys and numeric angles.
NumericAngles ==
  /\ Keys \subseteq DOMAIN left_image
  /\ Keys \subseteq DOMAIN right_image
  /\ IsNum(left_image.angle_of_view_x)
  /\ IsNum(right_image.angle_of_view_x)

LeftAngle == left_image.angle_of_view_x.v
RightAngle == right_image.angle_of_view_x.v
Locals == call.out.locals
Classified ==
  Locals.case \in {"between the cameras", "to the left of the left camera",
                   "to the right of the right camera"}
NoTriangulationStep ==
  /\ Locals.internal_angle_left_x = None
  /\ Locals.internal_angle_right_x = None
  /\ Locals.internal_angle_obj = None
  /\ Locals.denominator = None
  /\ Locals.numerator = None
  /\ Locals.value_inside_sqrt = None

\* C1: calculate_distance classifies from the signs of the two angles alone:
\* left<0, right>0 is "between the cameras" with internal angles 90-|left|,
\* 90-|right|; both positive is "to the left of the left camera" with
\* 90+|left|, 90-|right|; both negative is "to the right of the right
\* camera" with 90-|left|, 90+|right|; anything else returns an absent
\* distance, an "unknown case" message naming both angles, and runs no
\* triangulation step.
C1_Classification ==
  (IsTriangulation /\ NumericAngles) =>
    /\ (LeftAngle < 0 /\ RightAngle > 0) =>
         /\ Locals.case = "between the cameras"
         /\ Locals.internal_angle_left_x = <<90000 - Abs(LeftAngle)>>
         /\ Locals.internal_angle_right_x = <<90000 - Abs(RightAngle)>>
    /\ (LeftAngle > 0 /\ RightAngle > 0) =>
         /\ Locals.case = "to the left of the left camera"
         /\ Locals.internal_angle_left_x = <<90000 + Abs(LeftAngle)>>
         /\ Locals.internal_angle_right_x = <<90000 - Abs(RightAngle)>>
    /\ (LeftAngle < 0 /\ RightAngle < 0) =>
         /\ Locals.case = "to the right of the right camera"
         /\ Locals.internal_angle_left_x = <<90000 - Abs(LeftAngle)>>
         /\ Locals.internal_angle_right_x = <<90000 + Abs(RightAngle)>>
    /\ (LeftAngle = 0 \/ RightAngle = 0 \/ (LeftAngle > 0 /\ RightAngle < 0)) =>
         /\ Locals.case = "unknown"
         /\ call.out.raised = ""
         /\ call.out.distance = <<>>
         /\ call.out.details.msg = "Unknown case based on angles"
         /\ call.out.details.args = <<Num(LeftAngle), Num(RightAngle)>>
         /\ NoTriangulationStep

\* C1 witness: the fourth outcome, reached by left>0 with right<0.
C1_Witness ==
  /\ IsTriangulation /\ NumericAngles
  /\ LeftAngle > 0 /\ RightAngle < 0
  /\ call.out.details.msg = "Unknown case based on angles"

\* C2: in a classified case, internal_angle_left + internal_angle_right >= 180
\* returns an absent distance with the degenerate-triangle message, and the
\* division-by-zero and square-root tests are not reached.
C2_Degenerate ==
  (IsTriangulation /\ NumericAngles /\ Classified
   /\ Locals.internal_angle_left_x[1] + Locals.internal_angle_right_x[1] >= 180000) =>
    /\ call.out.raised = ""
    /\ call.out.distance = <<>>
    /\ call.out.details.msg = "Invalid internal angles leading to degenerate triangle."
    /\ Locals.internal_angle_obj[1] <= 0
    /\ Locals.denominator = <<>>
    /\ Locals.value_inside_sqrt = <<>>

\* C2 witness: both angles equal and positive, so internal_angle_obj is 0 and
\* sin(0)^2 = 0 would have met the division-by-zero test.
C2_Witness ==
  /\ IsTriangulation /\ NumericAngles /\ Classified
  /\ Locals.internal_angle_obj = <<0>>
  /\ call.out.details.msg = "Invalid internal angles leading to degenerate triangle."

C4_CheckOrder ==
  (IsTriangulation /\ NumericAngles /\ Classified
   /\ Locals.internal_angle_obj # <<>> /\ Locals.internal_angle_obj[1] > 0) =>
    LET denom == SinSquared(Locals.internal_angle_obj[1])
        num == SinSquared(Locals.internal_angle_left_x[1])
               + SinSquared(Locals.internal_angle_right_x[1])
        value == 2 * Ratio(num, denom) - ValueScale
    IN /\ call.out.raised = ""
       /\ Locals.denominator = <<denom>>
       /\ IF denom = 0 THEN
            /\ call.out.distance = <<>>
            /\ call.out.details.msg
                 = "Division by zero encountered in distance calculation."
          ELSE IF value < 0 THEN
            /\ call.out.distance = <<>>
            /\ call.out.details.msg
                 = "Invalid value inside square root in distance calculation."
          ELSE
            /\ call.out.distance = <<(cameras_distance * Sqrt(value)) \div 2>>
            /\ call.out.details = [msg |-> "Object is <case>.",
                                   args |-> <<Text(Locals.case)>>]

\* C4 witness: a non-degenerate triangle whose radicand is negative (both
\* internal angles 0, left=-90 and right=90), so the second test decided.
C4_Witness ==
  /\ IsTriangulation /\ NumericAngles /\ Classified
  /\ Locals.internal_angle_obj # <<>> /\ Locals.internal_angle_obj[1] > 0
  /\ Locals.denominator # <<>> /\ Locals.denominator[1] > 0
  /\ Locals.value_inside_sqrt # <<>> /\ Locals.value_inside_sqrt[1] < 0
  /\ call.out.distance = <<>>

\* C5: neither estimator lets a fault out: every call returns a record with a
\* distance (a number or None) and a details text; a missing key or a
\* non-numeric value that is used gives an absent distance whose details name
\* the fault.
C5_NoFaultEscapes ==
  /\ (IsTriangulation \/ IsDisparity) =>
       /\ call.out.raised = ""
       /\ Len(call.out.distance) <= 1
       /\ call.out.details.msg # ""
  /\ IsTriangulation =>
       /\ (~(Keys \subseteq DOMAIN left_image) \/ ~(Keys \subseteq DOMAIN right_image)) =>
            /\ call.out.distance = <<>>
            /\ call.out.details = [msg |-> "Error during distance calculation",
                                   args |-> <<Exc("KeyError")>>]
       /\ (Keys \subseteq DOMAIN left_image /\ Keys \subseteq DOMAIN right_image
           /\ ~IsNum(left_image.angle_of_view_x)) =>
            /\ call.out.distance = <<>>
            /\ call.out.details = [msg |-> "Error during distance calculation",
                                   args |-> <<Exc("TypeError")>>]
  /\ IsDisparity =>
       /\ ("obj_center_x" \notin DOMAIN left_image
           \/ "obj_center_x" \notin DOMAIN right_image) =>
            /\ call.out.distance = <<>>
            /\ call.out.details = [msg |-> "Error calculating distance using disparity",
                                   args |-> <<Exc("KeyError")>>]
       /\ ("obj_center_x" \in DOMAIN left_image /\ "obj_center_x" \in DOMAIN right_image
           /\ (~IsNum(left_image.obj_center_x) \/ ~IsNum(right_image.obj_center_x))) =>
            /\ call.out.distance = <<>>
            /\ call.out.details = [msg |-> "Error calculating distance using disparity",
                                   args |-> <<Exc("TypeError")>>]

\* C5 witness: calculate_distance has returned for a left dict without its
\* angle_of_view_x key.
C5_Witness ==
  /\ IsTriangulation
  /\ "angle_of_view_x" \notin DOMAIN left_image
  /\ call.out.details.args = <<Exc("KeyError")>>

ObjCenters ==
  /\ "obj_center_x" \in DOMAIN left_image /\ IsNum(left_image.obj_center_x)
  /\ "obj_center_x" \in DOMAIN right_image /\ IsNum(right_image.obj_center_x)
Disparity == left_image.obj_center_x.v - right_image.obj_center_x.v

\* C6: calculate_distance_using_disparity returns an absent distance for
\* disparity 0, else focal_length * baseline / disparity, with the sign of
\* the disparity; whatever angle_of_view_x and img_center_x hold, or whether
\* they are there at all.
C6_Disparity ==
  (IsDisparity /\ ObjCenters) =>
    /\ call.out.raised = ""
    /\ IF Disparity = 0 THEN
         /\ call.out.distance = <<>>
         /\ call.out.details.msg = "Disparity is zero, unable to calculate distance."
       ELSE
         /\ call.out.distance # <<>>
         /\ Abs(call.out.distance[1]) * Abs(Disparity) <= focal_length * cameras_distance
         /\ focal_length * cameras_distance < (Abs(call.out.distance[1]) + 1) * Abs(Disparity)
         /\ (Disparity < 0) => call.out.distance[1] < 0
         /\ (Disparity > 0) => call.out.distance[1] > 0

\* C6 witness: a negative disparity, computed for a left dict without an angle.
C6_Witness ==
  /\ IsDisparity /\ ObjCenters
  /\ Disparity < 0
  /\ "angle_of_view_x" \notin DOMAIN left_image
  /\ call.out.distance # <<>>

\* C9: pixel_to_angle_ratio_x is None exactly as long as
\* update_pixel_to_angle_ratio was never called, else fov_horizontal over the
\* res_width of the latest call (55/320 = 0.171875); fov_horizontal,
\* cameras_distance and focal_length = 640/(2*tan(fov/2)) stay as constructed.
C9_RatioAndConfig ==
  /\ (pixel_to_angle_ratio_x = <<>>) <=> (last_res_width = <<>>)
  /\ (last_res_width # <<>>) =>
       /\ pixel_to_angle_ratio_x[1] * last_res_width[1] <= fov_horizontal * 10^6
       /\ fov_horizontal * 10^6 < (pixel_to_angle_ratio_x[1] + 1) * last_res_width[1]
  /\ (last_res_width = <<320>>) => pixel_to_angle_ratio_x = <<171875>>
  /\ fov_horizontal = 55
  /\ cameras_distance = 265
  /\ focal_length * 2 * 5206 <= 640 * 10^6
  /\ 640 * 10^6 < (focal_length + 1) * 2 * 5206

\* C9 witness: the ratio was set for width 320 and an estimator ran since.
C9_Witness ==
  /\ last_res_width = <<320>>
  /\ pixel_to_angle_ratio_x = <<171875>>
  /\ IsTriangulation

\* C10: a call of either estimator returns what the first call on the same
\* dicts returned, and changes neither the engine's four fields nor the two
\* dicts, whether a distance comes back or not.
C10_Pure ==
  /\ [](IsTriangulation => first.calculate_distance = <<call.out>>)
  /\ [](IsDisparity => first.calculate_distance_using_disparity = <<call.out>>)
  /\ [][call'.op \in {"calculate_distance", "calculate_distance_using_disparity"}
          => UNCHANGED <<fov_horizontal, cameras_distance, focal_length,
                         pixel_to_angle_ratio_x, left_image, right_image>>]_vars

\* C10 witness: calculate_distance has returned an absent distance, with the
\* ratio set and the other estimator already called on the same dicts.
C10_Witness ==
  /\ IsTriangulation
  /\ first.calculate_distance = <<call.out>>
  /\ first.calculate_distance_using_disparity # <<>>
  /\ pixel_to_angle_ratio_x # <<>>
  /\ call.out.distance = <<>>

(***************************************************************************)
(* Claims about handle_selected_images, checked under AppSpec.             *)
(***************************************************************************)
RunReturned == pc = "idle" /\ printed # <<>>

\* C7: in a run with exactly one object detected in each image, once both
\* estimators have returned, the triangulation outcome is printed (the
\* distance, or "Undefined" with the details) and the run prints "Processing
\* complete.", whatever calculate_distance_using_disparity returned.
C7_ReportsTriangulation ==
  (RunReturned /\ distance_info # <<>> /\ distance_info_disparity # <<>>) =>
    /\ InSeq("Distance to the object", printed)
       \/ InSeq("Distance to the object: Undefined", printed)
    /\ InSeq("Processing complete.", printed)

\* C8: when the two observations are built, update_pixel_to_angle_ratio has
\* been called in this run with the width of the left image and with the
\* width of the right image, and pixel_to_angle_ratio_x is fov_horizontal
\* over the width of the image, for both images.
C8_RatioOfBothImages ==
  (pc = "calculate_distance") =>
    /\ InSeq(res_left[1], updates)
    /\ InSeq(res_right[1], updates)
    /\ pixel_to_angle_ratio_x = <<(fov_horizontal * 10^6) \div res_left[1]>>
    /\ pixel_to_angle_ratio_x = <<(fov_horizontal * 10^6) \div res_right[1]>>

(***************************************************************************)
(* Claims about concurrent calls, checked under ConcSpec.                  *)
(***************************************************************************)
\* What the call of thread t returns when it runs alone, on the engine as it
\* was when the call was issued.
Alone(t) ==
  IF threads[t].op = "calculate_distance"
  THEN calculate_distance(threads[t].config, threads[t].left, threads[t].right)
  ELSE calculate_distance_using_disparity(threads[t].config, threads[t].left,
                                          threads[t].right)

Estimators == {"calculate_distance", "calculate_distance_using_disparity"}

\* C11: in every interleaving of calculate_distance,
\* calculate_distance_using_disparity and update_pixel_to_angle_ratio calls of
\* several threads on one engine, each estimator call returns what it returns
\* when run alone on the same inputs, whatever pixel_to_angle_ratio_x was
\* when it was issued and is when it returns; and the configuration the
\* estimators read stays as constructed.
C11_ConcurrentCalls ==
  /\ \A t \in Threads :
       (threads[t].pc = "returned" /\ threads[t].op \in Estimators) =>
         /\ threads[t].out = Alone(t)
         /\ threads[t].out.raised = ""
  /\ fov_horizontal = MainFov
  /\ cameras_distance = MainCamerasDistance
  /\ focal_length = FocalLength(MainFov)

\* C11 witness: a disparity call has returned a distance, the ratio was
\* written between its issue and its return, and another thread is inside
\* calculate_distance.
C11_Witness ==
  \E t \in Threads, u \in Threads :
    /\ t # u
    /\ threads[t].pc = "returned"
    /\ threads[t].op = "calculate_distance_using_disparity"
    /\ threads[t].out.distance # <<>>
    /\ threads[t].config.pixel_to_angle_ratio_x # pixel_to_angle_ratio_x
    /\ threads[u].pc = "called"
    /\ threads[u].op = "calculate_distance"

(***************************************************************************)
(* Claims about the detections of a run, checked under AppFairSpec.        *)
(***************************************************************************)
OneEach == Len(bounding_boxes_left) = 1 /\ Len(bounding_boxes_right) = 1
Detected == InSeq("Saved detected images", printed)
EstimatorCalled ==
  \/ distance_info # <<>>
  \/ distance_info_disparity # <<>>
  \/ call.op \in Estimators
DistanceReported ==
  \/ InSeq("Distance (using disparity)", printed)
  \/ InSeq("Distance to the object", printed)
  \/ InSeq("Distance to the object: Undefined", printed)

\* C12: in a run of handle_selected_images the two estimators are called
\* only if exactly one box was detected in each image; with any other pair
\* of counts neither is called, no distance is reported, and the run prints
\* that it is unable to calculate the distance and then "Processing
\* complete."; if either image cannot be read the run ends before the ratio
\* update, the detection and any distance calculation.
C12_OnlyOneEach ==
  /\ [](EstimatorCalled => OneEach)
  /\ []((RunReturned /\ Detected /\ ~OneEach) =>
          /\ ~EstimatorCalled
          /\ ~DistanceReported
          /\ Len(printed) >= 2
          /\ printed[Len(printed) - 1] = "Unable to calculate distance"
          /\ printed[Len(printed)] = "Processing complete.")
  /\ []((RunReturned /\ (res_left = <<>> \/ res_right = <<>>)) =>
          /\ updates = <<>>
          /\ ~Detected
          /\ bounding_boxes_left = <<>> /\ bounding_boxes_right = <<>>
          /\ ~EstimatorCalled
          /\ ~DistanceReported
          /\ printed[Len(printed)] \in {"Failed to read left image",
                                        "Failed to read right image"})
  /\ (pc = "check_detections" /\ ~OneEach)
       ~> (RunReturned /\ ~OneEach /\ printed[Len(printed)] = "Processing complete.")

\* C12 witness: a run with two boxes on the left and one on the right has
\* returned after "Processing complete.".
C12_Witness ==
  /\ RunReturned
  /\ Len(bounding_boxes_left) = 2 /\ Len(bounding_boxes_right) = 1
  /\ printed[Len(printed)] = "Processing complete."
  /\ distance_info = <<>>

(***************************************************************************)
(* Claims about the triangle and the disparity.                            *)
(***************************************************************************)
IsInternalAngle(a) == a # <<>> /\ a[1] > 0 /\ a[1] < 180000

\* C13: whenever calculate_distance returns a present distance, the three
\* internal angles it used form a valid triangle: each is strictly between 0
\* and 180 degrees and they sum to 180; for every pair of angle_of_view
\* inputs, magnitudes of 90 degrees or more included.  (Checked under Spec.)
C13_ValidTriangle ==
  (IsTriangulation /\ call.out.distance # <<>>) =>
    /\ IsInternalAngle(Locals.internal_angle_left_x)
    /\ IsInternalAngle(Locals.internal_angle_right_x)
    /\ IsInternalAngle(Locals.internal_angle_obj)
    /\ Locals.internal_angle_left_x[1] + Locals.internal_angle_right_x[1]
         + Locals.internal_angle_obj[1] = 180000

SameWidth == res_left # <<>> /\ res_left = res_right
UnknownOrDegenerate ==
  {"Unknown case based on angles",
   "Invalid internal angles leading to degenerate triangle."}

\* C14: for the two observations handle_selected_images builds from two
\* images of the same width (img_center_x = width // 2, angle_of_view_x =
\* (img_center_x - obj_center_x) * fov / width): whenever calculate_distance
\* returns a present distance the disparity obj_center_left - obj_center_right
\* is strictly positive and calculate_distance_using_disparity on the same
\* pair returns a present, strictly positive distance; whenever the disparity
\* is zero or negative the triangulation result is absent, as the unknown
\* case or the degenerate triangle.  (Checked under AppSpec.)
C14_PresentMeansPositiveDisparity ==
  (SameWidth /\ distance_info # <<>>) =>
    /\ fov_horizontal > 0 /\ cameras_distance > 0
    /\ left_image.img_center_x = Num(res_left[1] \div 2)
    /\ right_image.img_center_x = Num(res_right[1] \div 2)
    /\ (distance_info[1].distance # <<>>) =>
         /\ Disparity > 0
         /\ (distance_info_disparity # <<>>) =>
              /\ distance_info_disparity[1].distance # <<>>
              /\ distance_info_disparity[1].distance[1] > 0
    /\ (Disparity <= 0) =>
         /\ distance_info[1].distance = <<>>
         /\ distance_info[1].details.msg \in UnknownOrDegenerate

\* C14 witness: both estimators have returned a distance for an object to the
\* left of the left camera, seen in two images of the same width.
C14_Witness ==
  /\ SameWidth
  /\ distance_info # <<>> /\ distance_info_disparity # <<>>
  /\ distance_info[1].distance # <<>>
  /\ distance_info[1].locals.case = "to the left of the left camera"
  /\ Disparity > 0
  /\ distance_info_disparity[1].distance[1] > 0

====
